---------------------------- MODULE Spec2Model ----------------------------
(***************************************************************************)
(* Model of the alumni analytics ETL job (src/main.py): the module-level   *)
(* setup (environment check, client construction), run_etl (extract from   *)
(* Airtable, four pandas aggregations, four BigQuery loads) and the        *)
(* WRITE_TRUNCATE load helper.                                             *)
(*                                                                         *)
(* Strings whose characters matter (field values, locations) are sequences *)
(* of one-character strings, so that str.split and str.strip are computed  *)
(* character by character.  A DataFrame is a sequence of rows; a cell is   *)
(* [null, str]: NaN/None, or a string.  The result of groupby(...).size()  *)
(* is a function from group key to count; an aggregate table is the set of *)
(* its rows (pandas emits them sorted by key; row order is not modelled).  *)
(* A warehouse table is a bag of rows, so that appending and replacing     *)
(* differ.                                                                 *)
(***************************************************************************)
EXTENDS Integers, Sequences, FiniteSets, Bags, TLC

VARIABLES
    env,              \* names of the environment variables holding a non-empty value
    source,           \* the Airtable table: what airtable.get_all() returns ('fields' of each record)
    warehouse,        \* BigQuery dataset: table name -> bag of rows
    pc,               \* position of the process: START, CONNECTING (module setup), CONFIGURED,
                      \* EXTRACTED, T2, T3, T4, TRANSFORMED, LOADING (run_etl), DONE, ABORTED
                      \* (run_etl returned), EXITED (exit()), CRASHED (uncaught exception)
    airtable,         \* TRUE once the Airtable client is constructed (line 35)
    bigquery_client,  \* TRUE once the BigQuery client is constructed (line 38)
    df_raw,           \* run_etl's df_raw
    stats,            \* run_etl's stats_company, stats_jobs, stats_major, stats_location, by table name
    next_load,        \* index in LoadOrder of the next load_dataframe_to_bigquery call
    console,          \* the diagnostics printed: setup or extraction error, outcome of each load call
    net_calls,        \* external service calls made by this process
    runs,             \* number of process invocations so far
    last_run          \* observation: source, warehouse and outcome at the end of the previous invocation

vars == <<env, source, warehouse, pc, airtable, bigquery_client, df_raw, stats,
          next_load, console, net_calls, runs, last_run>>

-----------------------------------------------------------------------------
(* Bounds of the model *)

MaxRecords == 2

MaxLen == 2

MaxRuns == 2

-----------------------------------------------------------------------------
(* Cells and strings *)

NaN == [null |-> TRUE, str |-> <<>>]

Str(s) == [null |-> FALSE, str |-> s]

\* the characters str.strip() removes: those for which str.isspace() holds.  A
\* character is written as itself or as its TLA+ escape; one that has no TLA+
\* literal is written as its Python escape (the string "\\x0b" stands for the
\* single character '\x0b')
Whitespace ==
    {"\t", "\n", "\\x0b", "\f", "\r", "\\x1c", "\\x1d", "\\x1e", "\\x1f",
     " ", "\\x85", "\\xa0", "\\u1680", "\\u2000", "\\u2001", "\\u2002",
     "\\u2003", "\\u2004", "\\u2005", "\\u2006", "\\u2007", "\\u2008",
     "\\u2009", "\\u200a", "\\u2028", "\\u2029", "\\u202f", "\\u205f",
     "\\u3000"}

SetMin(S) == CHOOSE x \in S : \A y \in S : x <= y

SetMax(S) == CHOOSE x \in S : \A y \in S : x >= y

\* str.strip(): leading and trailing whitespace removed
Strip(s) ==
    LET keep == {i \in 1..Len(s) : s[i] \notin Whitespace}
    IN  IF keep = {} THEN <<>> ELSE SubSeq(s, SetMin(keep), SetMax(keep))

\* Series.str.strip(): NaN stays NaN
StrStrip(cell) == IF cell.null THEN NaN ELSE Str(Strip(cell.str))

Commas(s) == {i \in 1..Len(s) : s[i] = ","}

\* a variant of SplitFirst that splits on the last comma (rsplit)
SplitLast(s) ==
    IF Commas(s) = {} THEN <<s>>
    ELSE LET i == SetMax(Commas(s))
         IN  <<SubSeq(s, 1, i - 1), SubSeq(s, i + 1, Len(s))>>

\* str.split(',', n=1): at most one split, on the first comma
SplitFirst(s) ==
    IF Commas(s) = {} THEN <<s>>
    ELSE LET i == SetMin(Commas(s))
         IN  <<SubSeq(s, 1, i - 1), SubSeq(s, i + 1, Len(s))>>

-----------------------------------------------------------------------------
(* DataFrames *)

safe_columns == {"Current Company", "Current Title", "Location", "Major", "Graduation Year"}

\* pd.DataFrame(list of dicts) followed by reindex(columns=safe_columns): a key
\* a record lacks is NaN, a key outside safe_columns is dropped
df_safe == [i \in DOMAIN df_raw |->
               [c \in safe_columns |->
                   IF c \in DOMAIN df_raw[i] THEN Str(df_raw[i][c]) ELSE NaN]]

\* DataFrame.dropna(subset=[col])
DropNa(df, col) ==
    LET NotNull(row) == ~row[col].null
    IN  SelectSeq(df, NotNull)

\* a variant of KeyOf that compares the values trimmed
KeyOfTrimmed(row, by) == [c \in by |-> Strip(row[c].str)]

\* the group key of a row: the exact values of the key columns
KeyOf(row, by) == [c \in by |-> row[c].str]

\* a variant of GroupBySize that yields one per group
GroupByOne(df, by) ==
    LET live == {i \in DOMAIN df : \A c \in by : ~df[i][c].null}
        keys == {KeyOf(df[i], by) : i \in live}
    IN  [k \in keys |-> 1]

\* DataFrame.groupby(by).size(): rows with NaN in a key column are left out
\* (dropna=True, the default); one entry per key observed
GroupBySize(df, by) ==
    LET live == {i \in DOMAIN df : \A c \in by : ~df[i][c].null}
        keys == {KeyOf(df[i], by) : i \in live}
    IN  [k \in keys |-> Cardinality({i \in live : KeyOf(df[i], by) = k})]

\* T1: lines 119-121
CompanyStats(df) ==
    LET g == GroupBySize(DropNa(df, "Current Company"), {"Current Company"})
    IN  {[company_name |-> k["Current Company"], alumni_count |-> g[k]] : k \in DOMAIN g}

\* T2: lines 125-127
JobStats(df) ==
    LET g == GroupBySize(DropNa(df, "Current Title"), {"Current Title"})
    IN  {[job_title |-> k["Current Title"], job_count |-> g[k]] : k \in DOMAIN g}

\* T3: lines 131-133
MajorStats(df) ==
    LET g == GroupBySize(DropNa(df, "Major"), {"Major"})
    IN  {[major |-> k["Major"], major_count |-> g[k]] : k \in DOMAIN g}

\* the literal 'United States' of line 145
UnitedStates == <<"U", "n", "i", "t", "e", "d", " ", "S", "t", "a", "t", "e", "s">>

\* df_location['Location'].str.split(',', expand=True, n=1): the parts of each row
SplitLocations(df) ==
    LET loc == DropNa(df, "Location")
    IN  [i \in DOMAIN loc |-> SplitFirst(loc[i]["Location"].str)]

\* the number of columns of the expanded split: the longest row of parts
\* (none for an empty frame)
ExpandWidth(parts) ==
    IF DOMAIN parts = {} THEN 0 ELSE SetMax({Len(parts[i]) : i \in DOMAIN parts})

\* line 140 raises unless the expanded split has exactly the two columns
\* assigned to ['city', 'state_raw'] (ValueError: Columns must be same length
\* as key; on a Location column without any string the .str accessor or the
\* assignment raises as well)
LocationRaises(df) == ExpandWidth(SplitLocations(df)) # Cardinality({"city", "state_raw"})

\* lines 140-145: the columns added to df_location; a row with a single part
\* has None in state_raw
LocationFrame(df) ==
    LET parts == SplitLocations(df)
    IN  [i \in DOMAIN parts |->
            [city    |-> StrStrip(Str(parts[i][1])),
             state   |-> StrStrip(IF Len(parts[i]) > 1 THEN Str(parts[i][2]) ELSE NaN),
             country |-> Str(UnitedStates)]]

\* T4: line 148
LocationStats(df) ==
    LET g == GroupBySize(LocationFrame(df), {"country", "state", "city"})
    IN  {[country |-> k.country, state |-> k.state, city |-> k.city,
          alumni_count |-> g[k]] : k \in DOMAIN g}

-----------------------------------------------------------------------------
(* The process: module setup, run_etl, load_dataframe_to_bigquery *)

EnvNames == {"AIRTABLE_BASE_ID", "AIRTABLE_TABLE_NAME", "AIRTABLE_API_KEY",
             "GCP_PROJECT_ID", "BIGQUERY_DATASET_ID"}

\* the order of the four load calls, lines 160-163
LoadOrder == <<"stats_company", "stats_job_title", "stats_major", "stats_location">>

Tables == {LoadOrder[i] : i \in DOMAIN LoadOrder}

\* a variant of ConfigComplete that accepts a partly set environment (any())
ConfigAny == env # {}

\* line 28: all([...]) of the five values
ConfigComplete == \A n \in EnvNames : n \in env

\* lines 28-31: a value is missing: the error is printed and exit() ends the process
ConfigMissing ==
    /\ pc = "START"
    /\ ~ConfigComplete
    /\ console' = Append(console, [stage |-> "SETUP", table |-> "", outcome |-> "ERROR"])
    /\ pc' = "EXITED"
    /\ UNCHANGED <<env, source, warehouse, airtable, bigquery_client, df_raw, stats,
                   next_load, net_calls, runs, last_run>>

\* line 28 when every value is present: fall through to the client construction
ConfigPresent ==
    /\ pc = "START"
    /\ ConfigComplete
    /\ pc' = "CONNECTING"
    /\ UNCHANGED <<env, source, warehouse, airtable, bigquery_client, df_raw, stats,
                   next_load, console, net_calls, runs, last_run>>

\* lines 33-39: both clients constructed
ConnectOK ==
    /\ pc = "CONNECTING"
    /\ airtable' = TRUE
    /\ bigquery_client' = TRUE
    /\ pc' = "CONFIGURED"
    /\ UNCHANGED <<env, source, warehouse, df_raw, stats, next_load, console,
                   net_calls, runs, last_run>>

\* lines 35, 40-42: Airtable(...) raises
ConnectAirtableFails ==
    /\ pc = "CONNECTING"
    /\ console' = Append(console, [stage |-> "SETUP", table |-> "", outcome |-> "ERROR"])
    /\ pc' = "EXITED"
    /\ UNCHANGED <<env, source, warehouse, airtable, bigquery_client, df_raw, stats,
                   next_load, net_calls, runs, last_run>>

\* lines 38, 40-42: bigquery.Client() raises after the Airtable client was built
ConnectBigQueryFails ==
    /\ pc = "CONNECTING"
    /\ airtable' = TRUE
    /\ console' = Append(console, [stage |-> "SETUP", table |-> "", outcome |-> "ERROR"])
    /\ pc' = "EXITED"
    /\ UNCHANGED <<env, source, warehouse, bigquery_client, df_raw, stats,
                   next_load, net_calls, runs, last_run>>

\* a variant of ExtractFails that goes on with an empty frame
ExtractFailsContinues ==
    /\ pc = "CONFIGURED"
    /\ net_calls' = net_calls \cup {"airtable.get_all"}
    /\ console' = Append(console, [stage |-> "EXTRACT", table |-> "", outcome |-> "ERROR"])
    /\ df_raw' = <<>>
    /\ pc' = "EXTRACTED"
    /\ UNCHANGED <<env, source, warehouse, airtable, bigquery_client, stats,
                   next_load, runs, last_run>>

\* lines 87-92: get_all() returns the records; df_raw holds their 'fields'
ExtractOK ==
    /\ pc = "CONFIGURED"
    /\ net_calls' = net_calls \cup {"airtable.get_all"}
    /\ df_raw' = source
    /\ pc' = "EXTRACTED"
    /\ UNCHANGED <<env, source, warehouse, airtable, bigquery_client, stats,
                   next_load, console, runs, last_run>>

\* lines 94-97: get_all() raises: the error is printed and run_etl returns
ExtractFails ==
    /\ pc = "CONFIGURED"
    /\ net_calls' = net_calls \cup {"airtable.get_all"}
    /\ console' = Append(console, [stage |-> "EXTRACT", table |-> "", outcome |-> "ERROR"])
    /\ pc' = "ABORTED"
    /\ UNCHANGED <<env, source, warehouse, airtable, bigquery_client, df_raw, stats,
                   next_load, runs, last_run>>

\* lines 115-122
T1 ==
    /\ pc = "EXTRACTED"
    /\ stats' = stats @@ ("stats_company" :> CompanyStats(df_safe))
    /\ pc' = "T2"
    /\ UNCHANGED <<env, source, warehouse, airtable, bigquery_client, df_raw,
                   next_load, console, net_calls, runs, last_run>>

\* lines 125-128
T2 ==
    /\ pc = "T2"
    /\ stats' = stats @@ ("stats_job_title" :> JobStats(df_safe))
    /\ pc' = "T3"
    /\ UNCHANGED <<env, source, warehouse, airtable, bigquery_client, df_raw,
                   next_load, console, net_calls, runs, last_run>>

\* lines 131-134
T3 ==
    /\ pc = "T3"
    /\ stats' = stats @@ ("stats_major" :> MajorStats(df_safe))
    /\ pc' = "T4"
    /\ UNCHANGED <<env, source, warehouse, airtable, bigquery_client, df_raw,
                   next_load, console, net_calls, runs, last_run>>

\* lines 137-151: the location frame is grouped, or line 140 raises and the
\* exception, caught nowhere, ends run_etl and the process
T4 ==
    /\ pc = "T4"
    /\ IF LocationRaises(df_safe)
       THEN /\ pc' = "CRASHED"
            /\ UNCHANGED stats
       ELSE /\ pc' = "TRANSFORMED"
            /\ stats' = stats @@ ("stats_location" :> LocationStats(df_safe))
    /\ UNCHANGED <<env, source, warehouse, airtable, bigquery_client, df_raw,
                   next_load, console, net_calls, runs, last_run>>

\* a variant of WriteTruncate that appends to the table (WRITE_APPEND)
WriteAppend(old, rows) == old (+) SetToBag(rows)

\* write_disposition="WRITE_TRUNCATE", lines 56-58: the rows replace the table
WriteTruncate(old, rows) == SetToBag(rows)

Loading == pc \in {"TRANSFORMED", "LOADING"} /\ next_load <= Len(LoadOrder)

\* lines 60-67: the load job completes
LoadOK ==
    /\ Loading
    /\ LET t == LoadOrder[next_load]
       IN  /\ warehouse' = [warehouse EXCEPT ![t] = WriteTruncate(@, stats[t])]
           /\ console' = Append(console, [stage |-> "LOAD", table |-> t, outcome |-> "SUCCESS"])
    /\ net_calls' = net_calls \cup {"bigquery.load_table_from_dataframe"}
    /\ next_load' = next_load + 1
    /\ pc' = "LOADING"
    /\ UNCHANGED <<env, source, airtable, bigquery_client, df_raw, stats, runs, last_run>>

\* a variant of LoadNotFound in which the exception leaves the function
LoadNotFoundPropagates ==
    /\ Loading
    /\ console' = Append(console, [stage |-> "LOAD", table |-> LoadOrder[next_load],
                                 outcome |-> "NotFound"])
    /\ net_calls' = net_calls \cup {"bigquery.load_table_from_dataframe"}
    /\ pc' = "CRASHED"
    /\ UNCHANGED <<env, source, warehouse, airtable, bigquery_client, df_raw, stats,
                   next_load, runs, last_run>>

\* lines 69-71: the job raises NotFound; it is printed, the table is untouched
LoadNotFound ==
    /\ Loading
    /\ console' = Append(console, [stage |-> "LOAD", table |-> LoadOrder[next_load],
                                 outcome |-> "NotFound"])
    /\ net_calls' = net_calls \cup {"bigquery.load_table_from_dataframe"}
    /\ next_load' = next_load + 1
    /\ pc' = "LOADING"
    /\ UNCHANGED <<env, source, warehouse, airtable, bigquery_client, df_raw, stats,
                   runs, last_run>>

\* lines 63-66, 72-74: another exception is raised and printed.  It comes from
\* submitting the job (line 63), or from waiting for it (job.result(), line 66):
\* the service runs a submitted job on its own, so when the wait fails on the
\* client (timeout, connection lost) the table is untouched or already holds
\* the new rows
LoadError ==
    /\ Loading
    /\ LET t == LoadOrder[next_load]
       IN  /\ \E committed \in BOOLEAN :
                 warehouse' = IF committed
                              THEN [warehouse EXCEPT ![t] = WriteTruncate(@, stats[t])]
                              ELSE warehouse
           /\ console' = Append(console, [stage |-> "LOAD", table |-> t, outcome |-> "ERROR"])
    /\ net_calls' = net_calls \cup {"bigquery.load_table_from_dataframe"}
    /\ next_load' = next_load + 1
    /\ pc' = "LOADING"
    /\ UNCHANGED <<env, source, airtable, bigquery_client, df_raw, stats, runs, last_run>>

\* line 165: after the fourth load call run_etl prints its last line and returns
Finish ==
    /\ pc = "LOADING"
    /\ next_load > Len(LoadOrder)
    /\ pc' = "DONE"
    /\ UNCHANGED <<env, source, warehouse, airtable, bigquery_client, df_raw, stats,
                   next_load, console, net_calls, runs, last_run>>

-----------------------------------------------------------------------------
(* Inputs *)

SeqsUpTo(S, n) == UNION {[1..k -> S] : k \in 0..n}

\* the raw records (dicts of fields) whose keys are a subset of DOMAIN vals,
\* the value of key c drawn from vals[c]; Airtable omits empty fields
RecordsOver(vals) ==
    UNION {{f \in [S -> UNION {vals[c] : c \in S}] : \A c \in S : f[c] \in vals[c]} :
           S \in SUBSET DOMAIN vals}

FieldRecords ==
    RecordsOver([c \in {"Current Company", "Current Title", "Major", "Location"} |->
        CASE c = "Current Company" -> {<<"A">>, <<"A", " ">>}
          [] c = "Current Title"   -> {<<"T">>, <<"t">>}
          [] c = "Major"           -> {<<"M">>, <<"M", " ">>}
          [] c = "Location"        -> {<<"a", ",", "b">>}])

Alphabet == {"a", ",", " "}

LocationRecords ==
    RecordsOver([c \in {"Location"} |-> SeqsUpTo(Alphabet, MaxLen)])

Acme == <<"A", "c", "m", "e">>

Eng == <<"E", "n", "g">>

CS == <<"C", "S">>

AustinTX == <<"A", "u", "s", "t", "i", "n", ",", " ", "T", "X">>

DallasTX == <<"D", "a", "l", "l", "a", "s", ",", " ", "T", "X">>

Remote == <<"R", "e", "m", "o", "t", "e">>

Scenarios ==
    { \* the scenario of the specification's section 8
      << [c \in {"Current Company", "Location"} |->
             IF c = "Location" THEN AustinTX ELSE Acme],
         [c \in {"Current Company", "Location"} |->
             IF c = "Location" THEN DallasTX ELSE Acme],
         [c \in {"Location"} |-> AustinTX] >>,
      \* a location without a comma beside one with a comma; a key outside safe_columns
      << [c \in {"Name", "Current Company", "Current Title", "Major", "Location"} |->
             CASE c = "Name" -> <<"X">>
               [] c = "Current Company" -> Acme
               [] c = "Current Title" -> Eng
               [] c = "Major" -> CS
               [] c = "Location" -> Remote],
         [c \in {"Current Company", "Major", "Location"} |->
             CASE c = "Current Company" -> Acme
               [] c = "Major" -> CS
               [] c = "Location" -> AustinTX] >>,
      \* no location with a comma
      << [c \in {"Current Company", "Current Title", "Location"} |->
             CASE c = "Current Company" -> Acme
               [] c = "Current Title" -> Eng
               [] c = "Location" -> Remote] >>,
      \* no location at all
      << [c \in {"Current Company", "Major"} |->
             IF c = "Major" THEN CS ELSE Acme] >>,
      \* an empty table
      << >> }

NoTables == [t \in Tables |-> EmptyBag]

\* rows left in the warehouse by an earlier load
StaleTables ==
    [t \in Tables |->
        CASE t = "stats_company"   -> SetToBag({[company_name |-> <<"O", "l", "d">>, alumni_count |-> 7]})
          [] t = "stats_job_title" -> SetToBag({[job_title |-> <<"O", "l", "d">>, job_count |-> 7]})
          [] t = "stats_major"     -> SetToBag({[major |-> <<"O", "l", "d">>, major_count |-> 7]})
          [] t = "stats_location"  -> SetToBag({[country |-> UnitedStates, state |-> <<"O">>,
                                                 city |-> <<"O", "l", "d">>, alumni_count |-> 7]})]

\* lines 170-171: the job is invoked again (by its scheduler) after the previous
\* process ended; the Airtable table may have been edited in between.  The
\* module state of the new process is fresh; the warehouse persists.
NewRun ==
    /\ pc \in {"EXITED", "ABORTED", "CRASHED", "DONE"}
    /\ runs < MaxRuns
    /\ runs' = runs + 1
    /\ last_run' = [records  |-> source,
                    tables   |-> warehouse,
                    complete |-> /\ pc = "DONE"
                                 /\ \A i \in DOMAIN console : console[i].outcome = "SUCCESS"]
    /\ source' \in {source} \cup Scenarios
    /\ pc' = "START"
    /\ airtable' = FALSE
    /\ bigquery_client' = FALSE
    /\ df_raw' = <<>>
    /\ stats' = <<>>
    /\ next_load' = 1
    /\ console' = <<>>
    /\ net_calls' = {}
    /\ UNCHANGED <<env, warehouse>>

\* run_etl's steps
RunEtl ==
    \/ ExtractOK
    \/ ExtractFails
    \/ T1
    \/ T2
    \/ T3
    \/ T4
    \/ LoadOK
    \/ LoadNotFound
    \/ LoadError
    \/ Finish

\* module setup, lines 13-42
Setup ==
    \/ ConfigMissing
    \/ ConfigPresent
    \/ ConnectOK
    \/ ConnectAirtableFails
    \/ ConnectBigQueryFails

Next == Setup \/ RunEtl \/ NewRun

\* extraction and transformation only
NextTransform ==
    \/ ExtractOK
    \/ ExtractFails
    \/ T1
    \/ T2
    \/ T3
    \/ T4

\* the state of a fresh process, before line 13
Fresh ==
    /\ pc = "START"
    /\ airtable = FALSE
    /\ bigquery_client = FALSE
    /\ df_raw = <<>>
    /\ stats = <<>>
    /\ next_load = 1
    /\ console = <<>>
    /\ net_calls = {}
    /\ runs = 1
    /\ last_run = [records |-> <<>>, tables |-> warehouse, complete |-> FALSE]

Init ==
    /\ env \in SUBSET EnvNames
    /\ source \in Scenarios
    /\ warehouse \in {NoTables, StaleTables}
    /\ Fresh

\* the state at the call of run_etl with both clients constructed
Configured ==
    /\ env = EnvNames
    /\ warehouse = StaleTables
    /\ pc = "CONFIGURED"
    /\ airtable = TRUE
    /\ bigquery_client = TRUE
    /\ df_raw = <<>>
    /\ stats = <<>>
    /\ next_load = 1
    /\ console = <<>>
    /\ net_calls = {}
    /\ runs = 1
    /\ last_run = [records |-> <<>>, tables |-> warehouse, complete |-> FALSE]

InitFields ==
    /\ source \in SeqsUpTo(FieldRecords, MaxRecords)
    /\ Configured

InitLocation ==
    /\ source \in SeqsUpTo(LocationRecords, MaxRecords)
    /\ Configured

\* the pipeline, invoked up to MaxRuns times
Spec == Init /\ [][Next]_vars

\* the aggregates of company, job title and major over all small record lists
SpecFields == InitFields /\ [][NextTransform]_vars

\* the location aggregate over all small lists of short location strings
SpecLocation == InitLocation /\ [][NextTransform]_vars

-----------------------------------------------------------------------------
(* Properties *)

RECURSIVE SumOf(_, _)
\* the sum of column col over a set of rows
SumOf(rows, col) ==
    IF rows = {} THEN 0
    ELSE LET r == CHOOSE x \in rows : TRUE
         IN  r[col] + SumOf(rows \ {r}, col)

\* the fetched records that carry a value in field
Having(field) == {i \in DOMAIN df_raw : field \in DOMAIN df_raw[i]}

Computed(t) == t \in DOMAIN stats

\* the three single-field aggregates: table, source field, key column, count column
FieldAggregates ==
    { [table |-> "stats_company",   field |-> "Current Company", key |-> "company_name", count |-> "alumni_count"],
      [table |-> "stats_job_title", field |-> "Current Title",   key |-> "job_title",    count |-> "job_count"],
      [table |-> "stats_major",     field |-> "Major",           key |-> "major",        count |-> "major_count"] }

\* C1: once an aggregate of company, job title or major is computed, its counts
\* sum to the number of fetched records with a non-null value in its field
C1_CountsSumToNonNull ==
    \A a \in FieldAggregates :
        Computed(a.table) => SumOf(stats[a.table], a.count) = Cardinality(Having(a.field))

\* C1 witness: all three are computed over two records, both having a company,
\* one having a title, none having a major
C1_Witness ==
    /\ \A a \in FieldAggregates : Computed(a.table)
    /\ Cardinality(Having("Current Company")) = 2
    /\ Cardinality(Having("Current Title")) = 1
    /\ Cardinality(Having("Major")) = 0
    /\ SumOf(stats["stats_company"], "alumni_count") = 2

\* C10: a computed aggregate of company, job title or major has exactly one row
\* for each distinct value of its field, compared exactly, whose count is the
\* number of records carrying exactly that value; it has no other row, and no
\* row with a count of zero
C10_OneRowPerExactValue ==
    \A a \in FieldAggregates :
        Computed(a.table) =>
            /\ \A i \in Having(a.field) :
                  /\ Cardinality({r \in stats[a.table] : r[a.key] = df_raw[i][a.field]}) = 1
                  /\ \A r \in stats[a.table] :
                        r[a.key] = df_raw[i][a.field] =>
                            r[a.count] = Cardinality({j \in Having(a.field) :
                                                        df_raw[j][a.field] = df_raw[i][a.field]})
            /\ \A r \in stats[a.table] :
                  /\ r[a.count] > 0
                  /\ \E i \in Having(a.field) : df_raw[i][a.field] = r[a.key]

\* C10 witness: two companies that differ only by a trailing space are two rows
C10_Witness ==
    /\ Computed("stats_company")
    /\ [company_name |-> <<"A">>, alumni_count |-> 1] \in stats["stats_company"]
    /\ [company_name |-> <<"A", " ">>, alumni_count |-> 1] \in stats["stats_company"]

RECURSIVE DropLeading(_)
DropLeading(s) ==
    IF s # <<>> /\ Head(s) \in Whitespace THEN DropLeading(Tail(s)) ELSE s

RECURSIVE DropTrailing(_)
DropTrailing(s) ==
    IF s # <<>> /\ s[Len(s)] \in Whitespace THEN DropTrailing(SubSeq(s, 1, Len(s) - 1)) ELSE s

\* s without its leading and trailing whitespace
Trimmed(s) == DropTrailing(DropLeading(s))

HasComma(s) == \E i \in 1..Len(s) : s[i] = ","

FirstComma(s) == CHOOSE i \in 1..Len(s) : s[i] = "," /\ \A j \in 1..(i - 1) : s[j] # ","

\* the trimmed text before the first comma, and the trimmed text after it
CityOf(s) == Trimmed(SubSeq(s, 1, FirstComma(s) - 1))

StateOf(s) == Trimmed(SubSeq(s, FirstComma(s) + 1, Len(s)))

\* the fetched records whose Location has a comma, and those whose Location has none
WithComma == {i \in Having("Location") : HasComma(df_raw[i]["Location"])}

WithoutComma == {i \in Having("Location") : ~HasComma(df_raw[i]["Location"])}

\* C9: a record whose Location has a comma never makes the location transform
\* raise, and once stats_location is computed it has exactly one row with
\* country 'United States', state the trimmed text after the first comma and
\* city the trimmed text before it, whose alumni_count is the number of
\* records with a comma that yield the same state and city
C9_SplitOnFirstComma ==
    \A i \in WithComma :
        LET loc == df_raw[i]["Location"]
            same == {j \in WithComma : /\ CityOf(df_raw[j]["Location"]) = CityOf(loc)
                                       /\ StateOf(df_raw[j]["Location"]) = StateOf(loc)}
        IN  /\ pc # "CRASHED"
            /\ Computed("stats_location") =>
                  /\ Cardinality({r \in stats["stats_location"] :
                                     r.city = CityOf(loc) /\ r.state = StateOf(loc)}) = 1
                  /\ [country |-> UnitedStates, state |-> StateOf(loc), city |-> CityOf(loc),
                      alumni_count |-> Cardinality(same)] \in stats["stats_location"]

\* C9 witness: ",," (state ",") and " ," (city and state empty after trimming)
\* are each one row of the computed stats_location
C9_Witness ==
    /\ Computed("stats_location")
    /\ \E i \in WithComma : df_raw[i]["Location"] = <<",", ",">>
    /\ \E i \in WithComma : df_raw[i]["Location"] = <<" ", ",">>
    /\ [country |-> UnitedStates, state |-> <<",">>, city |-> <<>>, alumni_count |-> 1]
           \in stats["stats_location"]
    /\ [country |-> UnitedStates, state |-> <<>>, city |-> <<>>, alumni_count |-> 1]
           \in stats["stats_location"]

\* what the specification means a Location to yield: split on the first comma
\* when there is one, else the whole trimmed string with an empty state
Intended(s) ==
    IF HasComma(s) THEN [city |-> CityOf(s), state |-> StateOf(s)]
    ELSE [city |-> Trimmed(s), state |-> <<>>]

\* C2: a record whose Location is non-null and has no comma never makes the
\* location transform raise, and once stats_location is computed the record is
\* counted in the row whose city is the whole trimmed Location and whose state
\* is empty
C2_NoCommaKept ==
    \A i \in WithoutComma :
        LET loc == df_raw[i]["Location"]
            same == {j \in Having("Location") : Intended(df_raw[j]["Location"]) = Intended(loc)}
        IN  /\ pc # "CRASHED"
            /\ Computed("stats_location") =>
                  \E r \in stats["stats_location"] :
                      /\ r.city = Trimmed(loc)
                      /\ r.state = <<>>
                      /\ r.alumni_count = Cardinality(same)

LoadEntries ==
    LET IsLoad(e) == e.stage = "LOAD"
    IN  SelectSeq(console, IsLoad)

LoadFailed == \E i \in DOMAIN LoadEntries : LoadEntries[i].outcome # "SUCCESS"

ExtractFailed == \E i \in DOMAIN console : console[i].stage = "EXTRACT"

\* C3: whenever the run has ended after a successful extraction, the tables of
\* company, job title and major were produced and their loads attempted; and
\* every computed aggregate counts each record that has a value in its field
C3_Independent ==
    /\ pc \in {"CRASHED", "DONE"} =>
          \A a \in FieldAggregates :
              /\ Computed(a.table)
              /\ \E i \in DOMAIN LoadEntries : LoadEntries[i].table = a.table
    /\ \A a \in FieldAggregates :
          Computed(a.table) => SumOf(stats[a.table], a.count) = Cardinality(Having(a.field))
    /\ Computed("stats_location") =>
          SumOf(stats["stats_location"], "alumni_count") = Cardinality(Having("Location"))

\* the four loads were attempted once each, in order
AllAttempted == [i \in DOMAIN LoadEntries |-> LoadEntries[i].table] = LoadOrder

\* table t holds exactly the rows computed in this run
HoldsNew(t) ==
    /\ BagToSet(warehouse[t]) = stats[t]
    /\ \A r \in stats[t] : CopiesIn(r, warehouse[t]) = 1

\* table t holds what it held when the run began
HoldsPrior(t) == warehouse[t] = last_run.tables[t]

\* a failed load never ends the run: the run is then at a further load call or
\* at its last line, with a step to take, or is done
FailureCaught ==
    LoadFailed =>
        \/ pc = "DONE"
        \/ pc = "LOADING" /\ ENABLED RunEtl

\* C4 as stated: a failed load never ends the run; when the run is done, the
\* four loads were attempted once each in order, each table whose load
\* succeeded holds the newly computed rows and each table whose load failed
\* (NotFound or any other exception) holds what it held when the run began
C4_FailedTableRetained ==
    /\ FailureCaught
    /\ pc = "DONE" =>
          /\ AllAttempted
          /\ \A i \in DOMAIN LoadEntries :
                IF LoadEntries[i].outcome = "SUCCESS"
                THEN HoldsNew(LoadEntries[i].table)
                ELSE HoldsPrior(LoadEntries[i].table)

\* C4 amended: as C4, except that a table whose load failed with an exception
\* other than NotFound holds what it held when the run began or exactly the
\* newly computed rows
C4_LoadFailureIsolated ==
    /\ FailureCaught
    /\ pc = "DONE" =>
          /\ AllAttempted
          /\ \A i \in DOMAIN LoadEntries :
                LET t == LoadEntries[i].table
                IN  CASE LoadEntries[i].outcome = "SUCCESS"  -> HoldsNew(t)
                      [] LoadEntries[i].outcome = "NotFound" -> HoldsPrior(t)
                      [] OTHER -> HoldsPrior(t) \/ HoldsNew(t)

\* C4 witness: the run is done over stale tables; the load of stats_major
\* failed with NotFound and the table is as before, the load of stats_location
\* failed with another exception, the other two succeeded
C4_Witness ==
    /\ pc = "DONE"
    /\ last_run.tables = StaleTables
    /\ \A i \in DOMAIN LoadEntries :
          LoadEntries[i].outcome =
              CASE LoadEntries[i].table = "stats_major"    -> "NotFound"
                [] LoadEntries[i].table = "stats_location" -> "ERROR"
                [] OTHER -> "SUCCESS"
    /\ HoldsPrior("stats_major")
    /\ HoldsPrior("stats_location")
    /\ HoldsNew("stats_company")
    /\ ~HoldsPrior("stats_company")

\* C5: once the extraction has failed, the run is aborted: no aggregate is
\* computed, no load is attempted, BigQuery is not called and every warehouse
\* table is as it was when the run began
C5_ExtractFailureAborts ==
    ExtractFailed =>
        /\ pc = "ABORTED"
        /\ DOMAIN stats = {}
        /\ LoadEntries = <<>>
        /\ "bigquery.load_table_from_dataframe" \notin net_calls
        /\ warehouse = last_run.tables

\* C5 witness: a second run aborted over tables the first run loaded
C5_Witness ==
    /\ ExtractFailed
    /\ pc = "ABORTED"
    /\ last_run.complete
    /\ warehouse = last_run.tables
    /\ warehouse["stats_company"] # EmptyBag

\* C6: with any of the five configuration values missing, the process is
\* before the check or has exited; neither client is constructed, no external
\* call is made, nothing is extracted or loaded
C6_MissingConfigExits ==
    env # EnvNames =>
        /\ pc \in {"START", "EXITED"}
        /\ ~airtable
        /\ ~bigquery_client
        /\ net_calls = {}
        /\ df_raw = <<>>
        /\ LoadEntries = <<>>
        /\ warehouse = last_run.tables

\* C6 witness: exactly one value is missing and the process has exited
C6_Witness ==
    /\ Cardinality(EnvNames \ env) = 1
    /\ pc = "EXITED"
    /\ ~airtable
    /\ net_calls = {}

\* C7: when a run completes with every load successful, every table holds
\* exactly the rows computed in that run, whatever it held before; and if the
\* previous run also completed so over the same source data, the warehouse is
\* as that run left it
C7_Idempotent ==
    (pc = "DONE" /\ ~LoadFailed) =>
        /\ \A t \in Tables : HoldsNew(t)
        /\ (last_run.complete /\ last_run.records = source) => warehouse = last_run.tables

\* C7 witness: the second of two complete runs over the same, non-empty source data
C7_Witness ==
    /\ pc = "DONE"
    /\ ~LoadFailed
    /\ runs = MaxRuns
    /\ last_run.complete
    /\ last_run.records = source
    /\ warehouse = last_run.tables
    /\ \A t \in {"stats_company", "stats_location"} : warehouse[t] # EmptyBag

\* the orchestrator state of the specification that a position of run_etl belongs to
Phase(p) == IF p \in {"EXTRACTED", "T2", "T3", "T4"} THEN "EXTRACTED" ELSE p

\* C8: run_etl moves CONFIGURED -> EXTRACTED -> TRANSFORMED -> LOADING -> DONE,
\* or CONFIGURED -> ABORTED, and in no other way; it is DONE only after the
\* four loads were attempted once each
C8_StateMachine ==
    [][ (pc' # pc /\ pc \in {"CONFIGURED", "EXTRACTED", "T2", "T3", "T4", "TRANSFORMED", "LOADING"}) =>
           /\ \/ Phase(pc') = Phase(pc)
              \/ <<Phase(pc), Phase(pc')>> \in
                    { <<"CONFIGURED", "EXTRACTED">>, <<"CONFIGURED", "ABORTED">>,
                      <<"EXTRACTED", "TRANSFORMED">>, <<"TRANSFORMED", "LOADING">>,
                      <<"LOADING", "DONE">> }
           /\ pc' = "DONE" => [i \in DOMAIN LoadEntries |-> LoadEntries[i].table] = LoadOrder ]_vars

=============================================================================
